---- MODULE Spec2Model ----
(***************************************************************************)
(* Model of the DashDAQ log ingestion: load_dashdaq_csv of the batch       *)
(* script (src/analyze_dashdaq.py) and of the viewer (src/dashdaq_gui.py). *)
(*                                                                         *)
(* Text is a tuple of one-character strings, so that strip, startswith,    *)
(* numeric parsing and str() are computed and not assumed.  A line of the  *)
(* file is kept as its comma-separated fields (quoted or not) plus a flag  *)
(* for leading blanks; Raw renders the line as the characters the header   *)
(* scan sees.                                                              *)
(*                                                                         *)
(* Numbers are fixed point with Scale units per 1, so that the division by *)
(* 1000.0 of the Time_s derivation is exact on integer millisecond stamps. *)
(*                                                                         *)
(* Input family (see Init):      rectangular files (every row has as many  *)
(* fields as the header), distinct header names, integer numerals.         *)
(*                                                                         *)
(* SpecViewer is the viewer as a state machine: self holds the fields of   *)
(* DashDAQViewer that open_csv and the time-range helpers read and write,  *)
(* call the handler that ran last, and every handler is one action.        *)
(***************************************************************************)
EXTENDS Integers, Sequences, FiniteSets, TLC

VARIABLES csv_path, batch_ret, viewer_ret, self, call, last_load

vars == <<csv_path, batch_ret, viewer_ret, self, call, last_load>>

(* ------------------------------ bounds --------------------------------- *)

MaxLines == 4

(* ------------------------------- text ---------------------------------- *)

T_Time == <<"T", "i", "m", "e">>
T_Time_s == <<"T", "i", "m", "e", "_", "s">>
T_Speed == <<"S", "p", "e", "e", "d">>
T_UnnamedAFR == <<"U", "n", "n", "a", "m", "e", "d", "A", "F", "R">>
T_Unnamed == <<"U", "n", "n", "a", "m", "e", "d">>
T_ms == <<"m", "s">>
T_kph == <<"k", "p", "h">>
T_s == <<"s">>
T_nan == <<"n", "a", "n">>
T_0 == <<"0">>
T_1000 == <<"1", "0", "0", "0">>
T_5 == <<"5">>
T_empty == <<>>
T_QuotedTime == <<"\"", "T", "i", "m", "e", "\"">>

DigitChars == <<"0", "1", "2", "3", "4", "5", "6", "7", "8", "9">>

IsDigit(c) == \E i \in 1..10 : DigitChars[i] = c

DigitVal(c) == (CHOOSE i \in 1..10 : DigitChars[i] = c) - 1

IsBlankChar(c) == c = " "

(* str.startswith *)
StartsWith(t, prefix) ==
    /\ Len(t) >= Len(prefix)
    /\ SubSeq(t, 1, Len(prefix)) = prefix

RECURSIVE LStrip(_)
LStrip(t) == IF t # <<>> /\ IsBlankChar(Head(t)) THEN LStrip(Tail(t)) ELSE t

RECURSIVE RStrip(_)
RStrip(t) ==
    IF t # <<>> /\ IsBlankChar(t[Len(t)]) THEN RStrip(SubSeq(t, 1, Len(t) - 1)) ELSE t

(* str.strip *)
Strip(t) == RStrip(LStrip(t))

(* ------------------------------ numbers -------------------------------- *)

MsPerSecond == 1000

Scale == MsPerSecond

NaN == [k |-> "nan", n |-> 0, s |-> <<>>]

IntVal(n) == [k |-> "int", n |-> n, s |-> <<>>]

FloatVal(n) == [k |-> "float", n |-> n, s |-> <<>>]

StrVal(t) == [k |-> "str", n |-> 0, s |-> t]

IsMissing(v) == v.k = "nan"

IsNumber(v) == v.k \in {"int", "float"}

(* a numeral of the input alphabet: digits only, blanks around it ignored *)
IsIntText(t) ==
    LET u == Strip(t) IN u # <<>> /\ \A i \in 1..Len(u) : IsDigit(u[i])

RECURSIVE DigitsValue(_)
DigitsValue(u) ==
    IF u = <<>> THEN 0
    ELSE 10 * DigitsValue(SubSeq(u, 1, Len(u) - 1)) + DigitVal(u[Len(u)])

ParseInt(t) == Scale * DigitsValue(Strip(t))

RECURSIVE NatToText(_)
NatToText(n) ==
    IF n < 10 THEN <<DigitChars[n + 1]>>
    ELSE NatToText(n \div 10) \o <<DigitChars[(n % 10) + 1]>>

RECURSIVE FracToText(_, _)
FracToText(f, unit) ==
    IF unit = 1 \/ f = 0 THEN <<>>
    ELSE <<DigitChars[(f \div (unit \div 10)) + 1]>>
         \o FracToText(f % (unit \div 10), unit \div 10)

(* Python str() of a cell value *)
PyStr(v) ==
    CASE v.k = "str" -> v.s
      [] v.k = "nan" -> T_nan
      [] v.k = "int" -> NatToText(v.n \div Scale)
      [] v.k = "float" ->
            NatToText(v.n \div Scale) \o <<".">>
            \o (IF v.n % Scale = 0 THEN <<"0">> ELSE FracToText(v.n % Scale, Scale))

(* ------------------------------- lines --------------------------------- *)

Field(q, t) == [q |-> q, t |-> t]

Line(lead, fields) == [lead |-> lead, fields |-> fields]

(* the characters of one field as written in the file *)
RawField(f) == IF f.q THEN <<"\"">> \o f.t \o <<"\"">> ELSE f.t

RECURSIVE JoinFields(_)
JoinFields(fs) ==
    IF fs = <<>> THEN <<>>
    ELSE IF Len(fs) = 1 THEN RawField(fs[1])
    ELSE RawField(fs[1]) \o <<",">> \o JoinFields(Tail(fs))

(* the characters of one line of f.readlines(), without its line end *)
Raw(line) == (IF line.lead THEN <<" ">> ELSE <<>>) \o JoinFields(line.fields)

(* faulty variant: the quotes of the token are not required *)
IsHeaderLineUnquoted(line) ==
    \/ StartsWith(Strip(Raw(line)), T_QuotedTime)
    \/ StartsWith(Strip(Raw(line)), T_Time)

(* line.strip().startswith('"Time"') *)
IsHeaderLine(line) == StartsWith(Strip(Raw(line)), T_QuotedTime)

(* for i, line in enumerate(lines): if ...: header_idx = i; break
   (1-based here; 0 stands for None) *)
RECURSIVE FindHeaderFrom(_, _)
FindHeaderFrom(lines, i) ==
    IF i > Len(lines) THEN 0
    ELSE IF IsHeaderLine(lines[i]) THEN i
    ELSE FindHeaderFrom(lines, i + 1)

(* faulty variant: no break, the last matching line wins *)
LocateLastHeader(lines) ==
    IF \E i \in 1..Len(lines) : IsHeaderLine(lines[i])
    THEN CHOOSE i \in 1..Len(lines) :
            IsHeaderLine(lines[i]) /\ \A j \in (i + 1)..Len(lines) : ~IsHeaderLine(lines[j])
    ELSE 0

LocateHeader(lines) == FindHeaderFrom(lines, 1)

(* ------------------------- pandas.read_csv ----------------------------- *)

(* The cell texts of one line.  A quote opens a quoted field only as the
   first character of a field: after leading blanks the quotes are ordinary
   characters and stay in the cell, with the blank. *)
Tokenize(line) ==
    [i \in 1..Len(line.fields) |->
        IF i = 1 /\ line.lead THEN <<" ">> \o RawField(line.fields[1])
        ELSE line.fields[i].t]

(* skip_blank_lines=True *)
IsBlankLine(line) == Strip(Raw(line)) = <<>>

(* a header field without a name is named "Unnamed: <position>" *)
ColumnName(t, i) == IF t = <<>> THEN T_Unnamed \o <<":", " ">> \o NatToText(i - 1) ELSE t

(* default na_values met in the input alphabet *)
NAValues == {<<>>, <<"N", "A">>, <<"N", "/", "A">>, <<"N", "a", "N">>, T_nan}

IsNA(t) == t \in NAValues

(* type inference of one column: int64, else float64 when cells are
   missing, else object holding the cell texts as str *)
InferDtype(cells) ==
    IF Len(cells) = 0 THEN "object"
    ELSE IF \A i \in 1..Len(cells) : IsNA(cells[i]) \/ IsIntText(cells[i])
         THEN IF \E i \in 1..Len(cells) : IsNA(cells[i]) THEN "float64" ELSE "int64"
    ELSE "object"

InferColumn(cells) ==
    LET dt == InferDtype(cells) IN
    [i \in 1..Len(cells) |->
        IF IsNA(cells[i]) THEN NaN
        ELSE IF dt = "int64" THEN IntVal(ParseInt(cells[i]))
        ELSE IF dt = "float64" THEN FloatVal(ParseInt(cells[i]))
        ELSE StrVal(cells[i])]

NoFrame == [columns |-> <<>>, dtype |-> <<>>, data |-> <<>>]

(* pd.read_csv(io.StringIO(data_str)): first line names the columns, each
   later non-blank line is a row; a short row is padded with missing cells *)
ReadCsv(lines) ==
    LET eff == SelectSeq(lines, LAMBDA l : ~IsBlankLine(l))
        head == Tokenize(eff[1])
        rows == [r \in 1..(Len(eff) - 1) |-> Tokenize(eff[r + 1])]
        cells(j) == [r \in 1..Len(rows) |->
                        IF j <= Len(rows[r]) THEN rows[r][j] ELSE <<>>]
    IN [columns |-> [j \in 1..Len(head) |-> ColumnName(head[j], j)],
        dtype |-> [j \in 1..Len(head) |-> InferDtype(cells(j))],
        data |-> [j \in 1..Len(head) |-> InferColumn(cells(j))]]

(* --------------------------- DataFrame --------------------------------- *)

HasColumn(df, name) == \E j \in 1..Len(df.columns) : df.columns[j] = name

ColIndex(df, name) == CHOOSE j \in 1..Len(df.columns) : df.columns[j] = name

Column(df, name) == df.data[ColIndex(df, name)]

NRows(df) == IF Len(df.columns) = 0 THEN 0 ELSE Len(df.data[1])

(* df.columns.str.startswith("Unnamed") of one column name *)
IsUnnamed(name) == StartsWith(name, T_Unnamed)

RECURSIVE KeptIndices(_, _)
KeptIndices(names, j) ==
    IF j > Len(names) THEN <<>>
    ELSE (IF IsUnnamed(names[j]) THEN <<>> ELSE <<j>>) \o KeptIndices(names, j + 1)

(* df.loc[:, ~df.columns.str.startswith("Unnamed")] *)
DropUnnamed(df) ==
    LET idx == KeptIndices(df.columns, 1)
    IN [columns |-> [i \in 1..Len(idx) |-> df.columns[idx[i]]],
        dtype |-> [i \in 1..Len(idx) |-> df.dtype[idx[i]]],
        data |-> [i \in 1..Len(idx) |-> df.data[idx[i]]]]

(* df.iloc[1:].reset_index(drop=True) *)
DropFirstRow(df) ==
    [df EXCEPT !.data = [j \in 1..Len(df.columns) |-> Tail(df.data[j])]]

(* pd.to_numeric(column, errors="coerce") of one cell *)
CoerceCell(v) ==
    IF v.k = "str" THEN (IF IsIntText(v.s) THEN IntVal(ParseInt(v.s)) ELSE NaN) ELSE v

AsFloat(v) == IF v.k = "int" THEN FloatVal(v.n) ELSE v

ToNumericDtype(dt, col) ==
    IF dt # "object" THEN dt
    ELSE IF \E i \in 1..Len(col) : IsMissing(CoerceCell(col[i])) THEN "float64"
    ELSE "int64"

ToNumericColumn(dt, col) ==
    IF dt # "object" THEN col
    ELSE LET out == [i \in 1..Len(col) |-> CoerceCell(col[i])]
         IN IF ToNumericDtype(dt, col) = "float64"
            THEN [i \in 1..Len(col) |-> AsFloat(out[i])]
            ELSE out

(* for col in df.columns: df[col] = pd.to_numeric(df[col], errors="coerce") *)
CoerceNumeric(df) ==
    [df EXCEPT !.dtype = [j \in 1..Len(df.columns) |-> ToNumericDtype(df.dtype[j], df.data[j])],
               !.data = [j \in 1..Len(df.columns) |-> ToNumericColumn(df.dtype[j], df.data[j])]]

(* faulty variant: the first sample taken for the least one *)
SeriesFirst(col) ==
    LET present == {i \in 1..Len(col) : ~IsMissing(col[i])}
    IN IF present = {} THEN NaN
       ELSE col[CHOOSE i \in present : \A j \in present : i <= j]

(* Series.min(): the least non-missing value, missing when there is none *)
SeriesMin(col) ==
    LET present == {i \in 1..Len(col) : ~IsMissing(col[i])}
    IN IF present = {} THEN NaN
       ELSE col[CHOOSE i \in present : \A j \in present : col[i].n <= col[j].n]

(* faulty variant: the subtraction the other way round *)
TimeSecondsReversed(col) ==
    LET t == [i \in 1..Len(col) |-> AsFloat(col[i])]
        m == SeriesMin(t)
    IN [i \in 1..Len(t) |->
          IF IsMissing(t[i]) \/ IsMissing(m) THEN NaN
          ELSE FloatVal((m.n - t[i].n) \div MsPerSecond)]

(* (t - t.min()) / 1000.0 on t = df["Time"].astype(float) *)
TimeSeconds(col) ==
    LET t == [i \in 1..Len(col) |-> AsFloat(col[i])]
        m == SeriesMin(t)
    IN [i \in 1..Len(t) |->
          IF IsMissing(t[i]) \/ IsMissing(m) THEN NaN
          ELSE FloatVal((t[i].n - m.n) \div MsPerSecond)]

(* df[name] = values: replaces the column in place or appends it *)
SetColumn(df, name, dt, values) ==
    IF HasColumn(df, name)
    THEN [df EXCEPT !.dtype[ColIndex(df, name)] = dt, !.data[ColIndex(df, name)] = values]
    ELSE [columns |-> Append(df.columns, name),
          dtype |-> Append(df.dtype, dt),
          data |-> Append(df.data, values)]

(* faulty variant: no Time_s unless some Time value is present *)
DeriveTimeSecondsIfAny(df) ==
    IF \A i \in 1..NRows(df) : IsMissing(Column(df, T_Time)[i]) THEN df
    ELSE SetColumn(df, T_Time_s, "float64", TimeSeconds(Column(df, T_Time)))

(* df["Time_s"] = (t - t.min()) / 1000.0 *)
DeriveTimeSeconds(df) ==
    SetColumn(df, T_Time_s, "float64", TimeSeconds(Column(df, T_Time)))

(* ------------------------ load_dashdaq_csv ----------------------------- *)

NoUnits == [c \in {} |-> <<>>]

NotRun == [status |-> "none", df |-> NoFrame, units |-> NoUnits]

Raised(exc) == [status |-> exc, df |-> NoFrame, units |-> NoUnits]

Returned(df, units) == [status |-> "ok", df |-> df, units |-> units]

(* lines[header_idx:] read by pandas, then the Unnamed columns dropped *)
TabularRegion(lines, h) == DropUnnamed(ReadCsv(SubSeq(lines, h, Len(lines))))

(* df.loc[0, name]: KeyError without the column or without a row 0 *)
CanLocFirst(df, name) == HasColumn(df, name) /\ NRows(df) > 0

(* if isinstance(df.loc[0, "Time"], str): df = df.iloc[1:] *)
BatchSplitUnits(df) ==
    IF Column(df, T_Time)[1].k = "str" THEN DropFirstRow(df) ELSE df

(* src/analyze_dashdaq.py load_dashdaq_csv; returns the table only *)
BatchLoad(lines) ==
    LET h == LocateHeader(lines) IN
    IF h = 0 THEN Raised("ValueError")
    ELSE LET df == TabularRegion(lines, h) IN
         IF ~CanLocFirst(df, T_Time) THEN Raised("KeyError")
         ELSE LET num == CoerceNumeric(BatchSplitUnits(df)) IN
              Returned(IF HasColumn(num, T_Time) THEN DeriveTimeSeconds(num) ELSE num,
                       NoUnits)

(* units = {col: str(df.loc[0, col]) for col in df.columns} *)
UnitsOfFirstRow(df) ==
    [c \in {df.columns[j] : j \in 1..Len(df.columns)} |-> PyStr(Column(df, c)[1])]

(* faulty variant: an entry already present is kept (setdefault) *)
WithSecondsDefault(units) ==
    [c \in DOMAIN units \cup {T_Time_s} |-> IF c \in DOMAIN units THEN units[c] ELSE T_s]

(* units["Time_s"] = "s" *)
WithSeconds(units) ==
    [c \in DOMAIN units \cup {T_Time_s} |-> IF c = T_Time_s THEN T_s ELSE units[c]]

(* src/dashdaq_gui.py load_dashdaq_csv; returns the table and the units *)
ViewerLoad(lines) ==
    LET h == LocateHeader(lines) IN
    IF h = 0 THEN Raised("ValueError")
    ELSE LET df == TabularRegion(lines, h) IN
         IF HasColumn(df, T_Time)
         THEN IF NRows(df) = 0 THEN Raised("KeyError")
              ELSE Returned(DeriveTimeSeconds(CoerceNumeric(DropFirstRow(df))),
                            WithSeconds(UnitsOfFirstRow(df)))
         ELSE Returned(CoerceNumeric(df), NoUnits)

(* DashDAQViewer._time_column on a loaded table; "" stands for None *)
TimeColumn(df) ==
    IF HasColumn(df, T_Time_s) THEN T_Time_s
    ELSE IF HasColumn(df, T_Time) THEN T_Time
    ELSE <<>>

(* ------------------------- viewer: time range -------------------------- *)

T_abc == <<"a", "b", "c">>

T_Minus1 == <<"-", "1">>

T_BlankHalf == <<" ", "0", ".", "5">>

T_3 == <<"3">>

(* a > b and a < b of two Python floats: False when either is nan *)
Gt(a, b) == ~IsMissing(a) /\ ~IsMissing(b) /\ a.n > b.n

Lt(a, b) == Gt(b, a)

(* a >= b and a <= b, False as well when either is nan *)
Ge(a, b) == ~IsMissing(a) /\ ~IsMissing(b) /\ a.n >= b.n

Le(a, b) == Ge(b, a)

(* the builtins max(a, b) and min(a, b): a unless b compares beyond it *)
PyMax(a, b) == IF Gt(b, a) THEN b ELSE a

PyMin(a, b) == IF Lt(b, a) THEN b ELSE a

(* Series.max(): the greatest non-missing value, missing when there is none *)
SeriesMax(col) ==
    LET present == {i \in 1..Len(col) : ~IsMissing(col[i])}
    IN IF present = {} THEN NaN
       ELSE col[CHOOSE i \in present : \A j \in present : col[i].n >= col[j].n]

(* position of the decimal point, Len + 1 without one *)
DotPos(b) ==
    IF \E i \in 1..Len(b) : b[i] = "."
    THEN CHOOSE i \in 1..Len(b) : b[i] = "." /\ \A j \in 1..(i - 1) : b[j] # "."
    ELSE Len(b) + 1

(* digits, at most one point, one digit at least *)
IsDecimalText(b) ==
    LET d == DotPos(b) IN
    /\ \A i \in 1..Len(b) : i # d => IsDigit(b[i])
    /\ \E i \in 1..Len(b) : i # d

(* value of a decimal numeral in 1/Scale units (three fraction digits) *)
DecimalValue(b) ==
    LET d == DotPos(b)
        frac == SubSeq(SubSeq(b, d + 1, Len(b)) \o <<"0", "0", "0">>, 1, 3)
    IN Scale * DigitsValue(SubSeq(b, 1, d - 1)) + DigitsValue(frac)

(* float(text) on the entry alphabet: blanks stripped, an optional sign,
   then "nan" or a decimal numeral; anything else is a ValueError *)
ParseFloat(t) ==
    LET u == Strip(t)
        signed == u # <<>> /\ u[1] \in {"-", "+"}
        body == IF signed THEN Tail(u) ELSE u
        sign == IF signed /\ u[1] = "-" THEN -1 ELSE 1
    IN IF body = T_nan THEN [ok |-> TRUE, v |-> NaN]
       ELSE IF IsDecimalText(body)
            THEN [ok |-> TRUE, v |-> FloatVal(sign * DecimalValue(body))]
            ELSE [ok |-> FALSE, v |-> NaN]

(* f"{x:.2f}" of a non-negative float: rounded to hundredths *)
Format2f(v) ==
    LET h == (v.n + 5) \div (Scale \div 100)
    IN NatToText(h \div 100) \o <<".">>
       \o <<DigitChars[((h \div 10) % 10) + 1], DigitChars[(h % 10) + 1]>>

(* (None, None) of _get_time_range *)
NoRange == [some |-> FALSE, start |-> NaN, end |-> NaN]

TimeRange(start, end) == [some |-> TRUE, start |-> start, end |-> end]

(* t = self.df[t_col].dropna(); (float(t.min()), float(t.max())) *)
FullRange(df) ==
    IF TimeColumn(df) = <<>> THEN NoRange
    ELSE LET t == Column(df, TimeColumn(df)) IN
         IF IsMissing(SeriesMin(t)) THEN NoRange
         ELSE TimeRange(AsFloat(SeriesMin(t)), AsFloat(SeriesMax(t)))

(* DashDAQViewer._get_time_range *)
GetTimeRange(gui) ==
    LET full == FullRange(gui.df)
        start_str == Strip(gui.time_start_var)
        end_str == Strip(gui.time_end_var)
        a == ParseFloat(start_str)
        b == ParseFloat(end_str)
        start == IF Gt(a.v, b.v) THEN b.v ELSE a.v
        end == IF Gt(a.v, b.v) THEN a.v ELSE b.v
    IN IF ~full.some THEN NoRange
       ELSE IF start_str = <<>> \/ end_str = <<>> THEN full
       ELSE IF ~a.ok \/ ~b.ok THEN full
       ELSE IF Lt(end, full.start) \/ Gt(start, full.end) THEN full
       ELSE TimeRange(PyMax(start, full.start), PyMin(end, full.end))

(* DashDAQViewer._init_time_range *)
InitTimeRange(gui) ==
    LET full == FullRange(gui.df) IN
    IF ~full.some
    THEN [gui EXCEPT !.time_start_var = <<>>, !.time_end_var = <<>>]
    ELSE [gui EXCEPT !.time_start_var = Format2f(full.start),
                     !.time_end_var = Format2f(full.end)]

(* the rows of self.df[(self.df[time_col] >= t_start) & (self.df[time_col] <= t_end)] *)
SliceRows(df, t_start, t_end) ==
    LET t == Column(df, TimeColumn(df)) IN
    {i \in 1..Len(t) : Ge(t[i], t_start) /\ Le(t[i], t_end)}

(* -------------------------- viewer: state ------------------------------ *)

(* DashDAQViewer.__init__: no table (NoFrame stands for None), no units,
   no signals, both range entries empty *)
NewViewer ==
    [df |-> NoFrame, units |-> NoUnits, signal_names |-> <<>>,
     time_start_var |-> <<>>, time_end_var |-> <<>>]

(* the handler that ran last and the return it left by; for plot_selected
   also its locals (t_start, t_end) and the rows of df_slice *)
Called(handler, exit) ==
    [handler |-> handler, exit |-> exit, range |-> NoRange, df_slice |-> {}]

Sliced(exit, range, rows) ==
    [handler |-> "plot_selected", exit |-> exit, range |-> range, df_slice |-> rows]

(* the viewer as constructed; last_load is the value returned by the most
   recent load_dashdaq_csv call that did not raise *)
ViewerConstructed ==
    /\ self = NewViewer
    /\ call = Called("__init__", "return")
    /\ last_load = NotRun

(* pd.api.types.is_numeric_dtype *)
IsNumericDtype(dt) == dt \in {"int64", "float64"}

(* [col for col in df.columns if col not in time_cols and is_numeric_dtype(df[col])] *)
SignalNames(df) ==
    SelectSeq(df.columns,
              LAMBDA c : c \notin {T_Time, T_Time_s} /\ IsNumericDtype(df.dtype[ColIndex(df, c)]))

(* faulty variant: the units of the new file added to those already held *)
OpenCsvMerged(gui, ret) ==
    InitTimeRange([gui EXCEPT !.df = ret.df,
                              !.units = [c \in DOMAIN gui.units \cup DOMAIN ret.units |->
                                            IF c \in DOMAIN ret.units THEN ret.units[c]
                                            ELSE gui.units[c]],
                              !.signal_names = SignalNames(ret.df)])

(* open_csv after a load that returned: self.df, self.units and
   self.signal_names assigned, then _init_time_range() *)
OpenCsvLoaded(gui, ret) ==
    InitTimeRange([gui EXCEPT !.df = ret.df,
                              !.units = ret.units,
                              !.signal_names = SignalNames(ret.df)])

(* --------------------------- input files ------------------------------- *)

Q(t) == Field(TRUE, t)

U(t) == Field(FALSE, t)

(* header lines: with the trailing comma of the DashDAQ export, with
   leading blanks, naming a Time_s column, naming a column that begins with
   "Unnamed" *)
HeaderLines ==
    { Line(FALSE, <<Q(T_Time), Q(T_Speed), U(T_empty)>>),
      Line(TRUE, <<Q(T_Time), Q(T_Time_s)>>),
      Line(FALSE, <<Q(T_Time), Q(T_Time_s)>>),
      Line(FALSE, <<Q(T_Time), Q(T_UnnamedAFR)>>) }

TimeCells == {T_ms, T_0, T_1000, T_empty}

SignalCells == {T_kph, T_5}

(* the rows under header h: one cell per header field, nothing under a
   trailing comma; h itself may come again as a row *)
RowsUnder(h) ==
    { Line(FALSE, [j \in 1..Len(h.fields) |->
                      IF j = 1 THEN U(t)
                      ELSE IF h.fields[j].t = <<>> THEN U(T_empty) ELSE U(c)])
        : t \in TimeCells, c \in SignalCells }
    \cup {h}

(* metadata lines met before the header *)
MetaLines ==
    { Line(FALSE, <<U(T_Time), U(T_Speed)>>),
      Line(FALSE, <<U(T_0), U(T_5)>>) }

(* metadata, then header line h, then rows under h: MaxLines lines at most *)
FileWithHeader(pre, h, rows) == pre \o <<h>> \o rows

(* ----------------------------- behaviour ------------------------------- *)

Init ==
    /\ \/ \E k \in 0..MaxLines : csv_path \in [1..k -> MetaLines]
       \/ \E h \in HeaderLines : \E k \in 0..(MaxLines - 1) :
             \E pre \in [1..k -> MetaLines] : \E n \in 0..(MaxLines - 1 - k) :
                \E rows \in [1..n -> RowsUnder(h)] :
                    csv_path = FileWithHeader(pre, h, rows)
    /\ batch_ret = NotRun
    /\ viewer_ret = NotRun
    /\ ViewerConstructed

(* analyze_dashdaq.main: df = load_dashdaq_csv(csv_path) *)
AnalyzeMain ==
    /\ batch_ret = NotRun
    /\ batch_ret' = BatchLoad(csv_path)
    /\ UNCHANGED <<csv_path, viewer_ret, self, call, last_load>>

(* dashdaq_gui: df, units = load_dashdaq_csv(Path(file_path)) *)
ViewerOpen ==
    /\ viewer_ret = NotRun
    /\ viewer_ret' = ViewerLoad(csv_path)
    /\ UNCHANGED <<csv_path, batch_ret, self, call, last_load>>

Next == AnalyzeMain \/ ViewerOpen

Spec == Init /\ [][Next]_vars

(* ------------------------ behaviour of the viewer ---------------------- *)

(* the header lines of the files offered to the viewer: the DashDAQ export
   and the one with leading blanks (no Time column, Time_s read from file) *)
ViewerHeaders ==
    { Line(FALSE, <<Q(T_Time), Q(T_Speed), U(T_empty)>>),
      Line(TRUE, <<Q(T_Time), Q(T_Time_s)>>) }

UnitsRowUnder(h) ==
    CHOOSE r \in RowsUnder(h) : r # h /\ r.fields[1].t = T_ms /\ r.fields[2].t = T_kph

(* samples: under the export header the time stamp varies; under the other
   one the Time_s cell does, a number or text *)
DataRowsUnder(h) ==
    {r \in RowsUnder(h) :
        /\ r # h
        /\ IF h.lead THEN r.fields[1].t = T_0
           ELSE r.fields[1].t \in {T_0, T_1000} /\ r.fields[2].t = T_5}

(* no header at all; a header alone; a header, the units row and samples *)
ViewerFiles ==
    {<<m>> : m \in MetaLines}
    \cup {<<h>> : h \in ViewerHeaders}
    \cup UNION { UNION { {FileWithHeader(<<>>, h, <<UnitsRowUnder(h)>> \o rows)
                            : rows \in [1..n -> DataRowsUnder(h)]}
                         : n \in 0..(MaxLines - 2) }
                 : h \in ViewerHeaders }

(* load_dashdaq_csv(Path(file_path)) of each of these files *)
LoadOf == [f \in ViewerFiles |-> ViewerLoad(f)]

(* filedialog.askopenfilename: a file, or nothing when dismissed *)
DialogAnswers ==
    {[chosen |-> FALSE, lines |-> <<>>]}
    \cup {[chosen |-> TRUE, lines |-> f] : f \in ViewerFiles}

(* what the user may type into the Start and End entries *)
EntryTexts == {T_empty, T_abc, T_nan, T_Minus1, T_BlankHalf, T_3}

InitViewer ==
    /\ csv_path = <<>>
    /\ batch_ret = NotRun
    /\ viewer_ret = NotRun
    /\ ViewerConstructed

(* DashDAQViewer.open_csv *)
OpenCsv(file_path) ==
    IF ~file_path.chosen
    THEN /\ call' = Called("open_csv", "cancelled")
         /\ UNCHANGED <<csv_path, batch_ret, viewer_ret, self, last_load>>
    ELSE LET ret == LoadOf[file_path.lines] IN
         /\ csv_path' = file_path.lines
         /\ viewer_ret' = ret
         /\ IF ret.status # "ok"
            THEN /\ call' = Called("open_csv", "failed")
                 /\ UNCHANGED <<self, last_load>>
            ELSE /\ self' = OpenCsvLoaded(self, ret)
                 /\ last_load' = ret
                 /\ call' = Called("open_csv", "loaded")
         /\ UNCHANGED batch_ret

(* the user types into the Start entry (textvariable time_start_var) *)
EditStart(text) ==
    /\ self' = [self EXCEPT !.time_start_var = text]
    /\ call' = Called("entry", "return")
    /\ UNCHANGED <<csv_path, batch_ret, viewer_ret, last_load>>

(* the user types into the End entry (textvariable time_end_var) *)
EditEnd(text) ==
    /\ self' = [self EXCEPT !.time_end_var = text]
    /\ call' = Called("entry", "return")
    /\ UNCHANGED <<csv_path, batch_ret, viewer_ret, last_load>>

(* DashDAQViewer.reset_full_time_range *)
ResetFullTimeRange ==
    /\ IF self.df = NoFrame
       THEN /\ call' = Called("reset_full_time_range", "no data")
            /\ UNCHANGED self
       ELSE /\ self' = InitTimeRange(self)
            /\ call' = Called("reset_full_time_range", "return")
    /\ UNCHANGED <<csv_path, batch_ret, viewer_ret, last_load>>

(* DashDAQViewer.plot_selected up to df_slice; selected_indices is the
   listbox selection at the time of the click *)
PlotSelected(selected_indices) ==
    LET range == GetTimeRange(self)
        rows == SliceRows(self.df, range.start, range.end)
    IN /\ call' = IF self.df = NoFrame THEN Called("plot_selected", "no data")
                  ELSE IF selected_indices = {} THEN Called("plot_selected", "no selection")
                  ELSE IF TimeColumn(self.df) = <<>> THEN Called("plot_selected", "no time column")
                  ELSE IF ~range.some THEN Called("plot_selected", "no range")
                  ELSE IF rows = {} THEN Sliced("empty range", range, rows)
                  ELSE Sliced("plotted", range, rows)
       /\ UNCHANGED <<csv_path, batch_ret, viewer_ret, self, last_load>>

NextViewer ==
    \/ \E file_path \in DialogAnswers : OpenCsv(file_path)
    \/ \E text \in EntryTexts : EditStart(text)
    \/ \E text \in EntryTexts : EditEnd(text)
    \/ ResetFullTimeRange
    \/ \E selected_indices \in SUBSET (1..Len(self.signal_names)) : PlotSelected(selected_indices)

SpecViewer == InitViewer /\ [][NextViewer]_vars

(* ------------------- vocabulary of the properties --------------------- *)

(* the line, read as fields, opens with the quoted token "Time" *)
OpensWithQuotedTime(line) ==
    /\ Len(line.fields) >= 1
    /\ line.fields[1].q
    /\ line.fields[1].t = T_Time

HasHeader(doc) == \E i \in 1..Len(doc) : OpensWithQuotedTime(doc[i])

(* position of the first such line *)
HeaderPos(doc) ==
    CHOOSE i \in 1..Len(doc) :
        /\ OpensWithQuotedTime(doc[i])
        /\ \A j \in 1..(i - 1) : ~OpensWithQuotedTime(doc[j])

Ran(ret) == ret.status # "none"

Loaded(ret) == ret.status = "ok"

(* the text under header field j in the line at position i *)
CellText(doc, i, j) == doc[i].fields[j].t

(* number of lines after the header *)
RowsAfterHeader(doc) == Len(doc) - HeaderPos(doc)

(* ------------------------------- C1 ------------------------------------ *)

(* C1: in both entry points, a document (also one of zero lines) without a
   line that opens with the quoted token "Time" makes load_dashdaq_csv fail
   with ValueError, and neither a table nor a units map is returned. *)
C1_HeaderNotFound ==
    \A ret \in {batch_ret, viewer_ret} :
        (Ran(ret) /\ ~HasHeader(csv_path)) =>
            /\ ret.status = "ValueError"
            /\ ret.df = NoFrame
            /\ ret.units = NoUnits

(* both entry points ran on a file whose only "Time" is unquoted *)
C1_Witness ==
    /\ ~HasHeader(csv_path)
    /\ \E i \in 1..Len(csv_path) : csv_path[i].fields[1].t = T_Time
    /\ batch_ret.status = "ValueError"
    /\ viewer_ret.status = "ValueError"

(* ------------------------------- C2 ------------------------------------ *)

(* C2: in both entry points, the first row after the header is removed only
   when its Time cell fails numeric parsing; when the cell is a number the
   row stays, as the first data row of the table. *)
C2_NumericFirstRowKept ==
    \A ret \in {batch_ret, viewer_ret} :
        ( /\ Loaded(ret)
          /\ HasColumn(ret.df, T_Time)
          /\ RowsAfterHeader(csv_path) >= 1
          /\ IsIntText(CellText(csv_path, HeaderPos(csv_path) + 1, 1)) ) =>
            /\ NRows(ret.df) = RowsAfterHeader(csv_path)
            /\ Column(ret.df, T_Time)[1].n
                 = ParseInt(CellText(csv_path, HeaderPos(csv_path) + 1, 1))

(* ------------------------------- C3 ------------------------------------ *)

(* C3: after a load by the viewer, with a units row (first row, Time cell a
   non-numeric text) the units map holds that row's literal cell text for
   every column the load keeps; without one (first row's Time cell numeric) the units map
   holds nothing but Time_s -> "s". *)
C3_UnitsRoundTrip ==
    LET h == HeaderPos(csv_path)
        first == CellText(csv_path, h + 1, 1)
    IN ( /\ Loaded(viewer_ret)
         /\ HasColumn(viewer_ret.df, T_Time)
         /\ RowsAfterHeader(csv_path) >= 1 ) =>
           /\ (~IsIntText(first) /\ ~IsNA(first)) =>
                 \A j \in 1..Len(csv_path[h].fields) :
                     csv_path[h].fields[j].t \notin {<<>>, T_UnnamedAFR} =>
                         /\ csv_path[h].fields[j].t \in DOMAIN viewer_ret.units
                         /\ viewer_ret.units[csv_path[h].fields[j].t]
                              = (IF csv_path[h].fields[j].t = T_Time_s THEN T_s
                                 ELSE CellText(csv_path, h + 1, j))
           /\ IsIntText(first) =>
                 \A c \in DOMAIN viewer_ret.units :
                     c = T_Time_s /\ viewer_ret.units[c] = T_s

(* ------------------------------- C4 ------------------------------------ *)

(* C4: load_dashdaq_csv fails only without a header line or without any
   column; a document whose header line names a Time column is loaded, also
   when no row, or a units row alone, follows the header. *)
C4_FailsOnlyWithoutHeader ==
    \A ret \in {batch_ret, viewer_ret} :
        ( /\ Ran(ret)
          /\ HasHeader(csv_path)
          /\ ~csv_path[HeaderPos(csv_path)].lead ) => Loaded(ret)

(* ------------------------------- C5 ------------------------------------ *)

(* the column names the header line at position k can give: its field
   texts, the first one with its blank and quotes when blanks lead the line *)
HeaderNames(doc, k) ==
    {doc[k].fields[j].t : j \in 1..Len(doc[k].fields)}
    \cup {<<" ", "\"">> \o doc[k].fields[1].t \o <<"\"">>}

(* C5: the header is the first line that opens with the quoted token
   "Time".  With the header at line k, the result is that of the file
   without its first k-1 lines, every column name comes from line k, every
   line after k is a row (all of them, or all but the first one), and a
   later line that opens with "Time" is such a row, its Time value missing. *)
C5_FirstHeaderOnly ==
    HasHeader(csv_path) =>
        LET k == HeaderPos(csv_path)
            rest == SubSeq(csv_path, k, Len(csv_path))
        IN /\ Ran(batch_ret) => batch_ret = BatchLoad(rest)
           /\ Ran(viewer_ret) => viewer_ret = ViewerLoad(rest)
           /\ \A ret \in {batch_ret, viewer_ret} :
                Loaded(ret) =>
                  LET d == RowsAfterHeader(csv_path) - NRows(ret.df) IN
                  /\ \A j \in 1..Len(ret.df.columns) :
                        ret.df.columns[j] \in HeaderNames(csv_path, k) \cup {T_Time_s}
                  /\ d \in {0, 1}
                  /\ \A i \in (k + 1 + d)..Len(csv_path) :
                        (OpensWithQuotedTime(csv_path[i]) /\ HasColumn(ret.df, T_Time)) =>
                            IsMissing(Column(ret.df, T_Time)[i - k - d])

(* metadata with an unquoted Time before the header, the header line again
   as a row after it, both entry points returned *)
C5_Witness ==
    /\ HasHeader(csv_path)
    /\ HeaderPos(csv_path) > 1
    /\ csv_path[1].fields[1].t = T_Time
    /\ \E i \in (HeaderPos(csv_path) + 2)..Len(csv_path) : OpensWithQuotedTime(csv_path[i])
    /\ Loaded(batch_ret)
    /\ Loaded(viewer_ret)
    /\ NRows(viewer_ret.df) >= 1

(* ------------------------------- C6 ------------------------------------ *)

HeaderNamesTimeSeconds(doc) ==
    \E j \in 1..Len(doc[HeaderPos(doc)].fields) : doc[HeaderPos(doc)].fields[j].t = T_Time_s

SomeTimeValue(df) ==
    /\ HasColumn(df, T_Time)
    /\ \E i \in 1..NRows(df) : ~IsMissing(Column(df, T_Time)[i])

(* C6 as claimed: Time_s is derived only when the Time column exists and
   has a non-missing value; otherwise the table has no Time_s column and
   the viewer's _time_column selects raw Time. *)
C6_TimeSecondsOnlyWithValues ==
    \A ret \in {batch_ret, viewer_ret} :
        (Loaded(ret) /\ ~HeaderNamesTimeSeconds(csv_path) /\ ~SomeTimeValue(ret.df)) =>
            /\ ~HasColumn(ret.df, T_Time_s)
            /\ HasColumn(ret.df, T_Time) => TimeColumn(ret.df) = T_Time

(* C6 amended: Time_s is derived exactly when the Time column exists, with
   or without non-missing values: Time_s is then missing in exactly the rows
   where Time is, and _time_column selects Time_s; without a Time column no
   column is added (a Time_s column is then one the header names). *)
C6_TimeSecondsWhenTimeColumn ==
    \A ret \in {batch_ret, viewer_ret} :
        Loaded(ret) =>
            /\ HasColumn(ret.df, T_Time) =>
                 /\ HasColumn(ret.df, T_Time_s)
                 /\ Len(Column(ret.df, T_Time_s)) = NRows(ret.df)
                 /\ \A i \in 1..NRows(ret.df) :
                       IsMissing(Column(ret.df, T_Time_s)[i])
                         <=> IsMissing(Column(ret.df, T_Time)[i])
                 /\ TimeColumn(ret.df) = T_Time_s
            /\ ~HasColumn(ret.df, T_Time) =>
                 /\ HasColumn(ret.df, T_Time_s) <=> HeaderNamesTimeSeconds(csv_path)
                 /\ Len(ret.df.columns) <= Len(csv_path[HeaderPos(csv_path)].fields)

(* the viewer returned rows whose Time values are all missing, and Time_s *)
C6_Witness ==
    /\ Loaded(viewer_ret)
    /\ HasColumn(viewer_ret.df, T_Time)
    /\ NRows(viewer_ret.df) >= 1
    /\ ~SomeTimeValue(viewer_ret.df)
    /\ HasColumn(viewer_ret.df, T_Time_s)
    /\ ~HeaderNamesTimeSeconds(csv_path)

(* ------------------------------- C7 ------------------------------------ *)

(* the least non-missing Time value of the table *)
LeastTime(df) ==
    LET vals == {Column(df, T_Time)[i].n :
                    i \in {r \in 1..NRows(df) : ~IsMissing(Column(df, T_Time)[r])}}
    IN CHOOSE m \in vals : \A v \in vals : m <= v

TimeSecondsLaw(df) ==
    LET t == Column(df, T_Time)
        ts == Column(df, T_Time_s)
    IN /\ \A i \in 1..NRows(df) : ~IsMissing(ts[i]) => ts[i].n >= 0
       /\ \E i \in 1..NRows(df) : ~IsMissing(ts[i]) /\ ts[i].n = 0
       /\ \A i \in 1..NRows(df) :
             /\ IsMissing(t[i]) <=> IsMissing(ts[i])
             /\ ~IsMissing(t[i]) => ts[i].n * MsPerSecond = t[i].n - LeastTime(df)

(* C7 as claimed: in every returned table that contains Time_s, the
   non-missing Time_s are >= 0, their minimum is exactly 0, Time_s[i] is
   (Time[i] - min Time) / 1000 and a missing Time gives a missing Time_s. *)
C7_TimeSecondsLawAlways ==
    \A ret \in {batch_ret, viewer_ret} :
        (Loaded(ret) /\ HasColumn(ret.df, T_Time) /\ HasColumn(ret.df, T_Time_s)) =>
            /\ SomeTimeValue(ret.df)
            /\ TimeSecondsLaw(ret.df)

(* C7 amended: the same, in every returned table whose Time column has at
   least one non-missing value. *)
C7_TimeSecondsLawWithValues ==
    \A ret \in {batch_ret, viewer_ret} :
        (Loaded(ret) /\ SomeTimeValue(ret.df)) =>
            /\ HasColumn(ret.df, T_Time_s)
            /\ TimeSecondsLaw(ret.df)

(* the batch script returned three rows: a later sample, a missing Time,
   then the earliest sample *)
C7_Witness ==
    /\ Loaded(batch_ret)
    /\ NRows(batch_ret.df) = 3
    /\ Column(batch_ret.df, T_Time)[1].n > Column(batch_ret.df, T_Time)[3].n
    /\ IsMissing(Column(batch_ret.df, T_Time)[2])
    /\ ~IsMissing(Column(batch_ret.df, T_Time)[1])
    /\ ~IsMissing(Column(batch_ret.df, T_Time)[3])
    /\ Column(batch_ret.df, T_Time_s)[1].n = 1000

(* ------------------------------- C8 ------------------------------------ *)

(* the file with the text of one cell replaced *)
WithCell(doc, i, j, t) == [doc EXCEPT ![i].fields[j].t = t]

SameValue(v, w) == (IsMissing(v) /\ IsMissing(w)) \/ (IsNumber(v) /\ IsNumber(w) /\ v.n = w.n)

(* ret is the result on csv_path, alt the result on the file whose cell
   (i, j), not a numeral, is replaced by a numeral: same rows, the cell is
   missing in ret, and every other cell of the named columns agrees *)
CellLocal(ret, alt, i, j) ==
    LET k == HeaderPos(csv_path)
        name == csv_path[k].fields[j].t
        d == RowsAfterHeader(csv_path) - NRows(ret.df)
    IN /\ Loaded(alt)
       /\ NRows(alt.df) = NRows(ret.df)
       /\ alt.df.columns = ret.df.columns
       /\ HasColumn(ret.df, name)
       /\ i - k - d >= 1
       /\ IsMissing(Column(ret.df, name)[i - k - d])
       /\ \A c \in 1..Len(ret.df.columns) : \A r \in 1..NRows(ret.df) :
             (ret.df.columns[c] # T_Time_s /\ ~(ret.df.columns[c] = name /\ r = i - k - d))
                => SameValue(ret.df.data[c][r], alt.df.data[c][r])

(* the cells of the rows below the first one that are no numerals, under a
   named column that the load keeps *)
BadDataCells(doc) ==
    LET k == HeaderPos(doc) IN
    {<<i, j>> \in ((k + 2)..Len(doc)) \X (1..Len(doc[k].fields)) :
        /\ doc[k].fields[j].t \notin {<<>>, T_Time_s, T_UnnamedAFR}
        /\ ~IsIntText(CellText(doc, i, j))}

(* C8: coercion is cell-local: a cell of a data row that is no number
   becomes missing, the load does not fail, every other cell of its row and
   of its column has the value it would have had with a number there, and
   the number of rows is the same. *)
C8_CoercionCellLocal ==
    (HasHeader(csv_path) /\ ~csv_path[HeaderPos(csv_path)].lead) =>
        \A p \in BadDataCells(csv_path) : \A t \in {T_0, T_5} :
            /\ Loaded(batch_ret) =>
                 CellLocal(batch_ret, BatchLoad(WithCell(csv_path, p[1], p[2], t)), p[1], p[2])
            /\ Loaded(viewer_ret) =>
                 CellLocal(viewer_ret, ViewerLoad(WithCell(csv_path, p[1], p[2], t)), p[1], p[2])

(* ------------------------------- C9 ------------------------------------ *)

(* the names the header gives, in order *)
NamedFields(doc) ==
    LET k == HeaderPos(doc) IN
    SelectSeq([j \in 1..Len(doc[k].fields) |-> doc[k].fields[j].t], LAMBDA t : t # <<>>)

(* position in the header line of the field named name *)
FieldOf(doc, name) ==
    CHOOSE j \in 1..Len(doc[HeaderPos(doc)].fields) : doc[HeaderPos(doc)].fields[j].t = name

(* C9: exactly the placeholder columns of a trailing empty delimiter are
   removed: the returned columns are the header's names in their order
   (then Time_s), the units map names no other column, and every kept
   column holds, row by row, the values of its own cells. *)
C9_OnlyPlaceholdersRemoved ==
    \A ret \in {batch_ret, viewer_ret} :
        (Loaded(ret) /\ ~csv_path[HeaderPos(csv_path)].lead) =>
            LET k == HeaderPos(csv_path)
                names == NamedFields(csv_path)
                d == RowsAfterHeader(csv_path) - NRows(ret.df)
            IN /\ ret.df.columns \in {names, Append(names, T_Time_s)}
               /\ \A c \in DOMAIN ret.units :
                     c = T_Time_s \/ \E j \in 1..Len(names) : names[j] = c
               /\ \A c \in 1..Len(names) : \A r \in 1..NRows(ret.df) :
                     LET text == CellText(csv_path, k + d + r, FieldOf(csv_path, names[c]))
                         v == Column(ret.df, names[c])[r]
                     IN names[c] # T_Time_s =>
                          IF IsIntText(text) THEN IsNumber(v) /\ v.n = ParseInt(text)
                          ELSE IsMissing(v)

(* ------------------------------- C10 ----------------------------------- *)

(* C10 as claimed: after a load by the viewer, the units map has a Time_s
   entry exactly when the table has a Time_s column, and the entry is "s". *)
C10_SecondsUnitIffColumn ==
    Loaded(viewer_ret) =>
        /\ (T_Time_s \in DOMAIN viewer_ret.units) <=> HasColumn(viewer_ret.df, T_Time_s)
        /\ (T_Time_s \in DOMAIN viewer_ret.units) => viewer_ret.units[T_Time_s] = T_s

(* C10 amended: after a load by the viewer, the units map has a Time_s
   entry exactly when the table has a Time column, that is when Time_s was
   derived; the entry is then "s", whatever the first row holds under a
   source column named Time_s. *)
C10_SecondsUnitIffDerived ==
    Loaded(viewer_ret) =>
        /\ (T_Time_s \in DOMAIN viewer_ret.units) <=> HasColumn(viewer_ret.df, T_Time)
        /\ HasColumn(viewer_ret.df, T_Time) => HasColumn(viewer_ret.df, T_Time_s)
        /\ (T_Time_s \in DOMAIN viewer_ret.units) => viewer_ret.units[T_Time_s] = T_s

(* the header names Time and Time_s, the units row says kph under Time_s,
   and the viewer returned Time_s -> "s" *)
C10_Witness ==
    /\ Loaded(viewer_ret)
    /\ HasColumn(viewer_ret.df, T_Time)
    /\ HeaderNamesTimeSeconds(csv_path)
    /\ CellText(csv_path, HeaderPos(csv_path) + 1, 2) = T_kph
    /\ viewer_ret.units[T_Time_s] = T_s
    /\ viewer_ret.units[T_Time] = T_ms
    /\ NRows(viewer_ret.df) >= 1

(* ------------------------------- C12 ----------------------------------- *)

(* no later present value is below an earlier one *)
NonDecreasing(col) ==
    \A i \in 1..Len(col) : \A j \in (i + 1)..Len(col) :
        (~IsMissing(col[i]) /\ ~IsMissing(col[j])) => col[i].n <= col[j].n

(* Series.is_monotonic_increasing: as above, and no value is missing *)
MonotonicIncreasing(col) ==
    /\ \A i \in 1..Len(col) : ~IsMissing(col[i])
    /\ NonDecreasing(col)

(* C12: in every returned table with Time and Time_s, Time_s is
   non-decreasing over the rows exactly when Time is, whether missing values
   are skipped or break monotonicity; rows keep their order. *)
C12_MonotoneIff ==
    \A ret \in {batch_ret, viewer_ret} :
        (Loaded(ret) /\ HasColumn(ret.df, T_Time) /\ HasColumn(ret.df, T_Time_s)) =>
            /\ NonDecreasing(Column(ret.df, T_Time_s)) <=> NonDecreasing(Column(ret.df, T_Time))
            /\ MonotonicIncreasing(Column(ret.df, T_Time_s))
                 <=> MonotonicIncreasing(Column(ret.df, T_Time))

(* the batch script returned three samples whose Time rises, then falls *)
C12_Witness ==
    /\ Loaded(batch_ret)
    /\ NRows(batch_ret.df) = 3
    /\ \A i \in 1..3 : ~IsMissing(Column(batch_ret.df, T_Time)[i])
    /\ Column(batch_ret.df, T_Time)[1].n < Column(batch_ret.df, T_Time)[2].n
    /\ Column(batch_ret.df, T_Time)[3].n < Column(batch_ret.df, T_Time)[2].n
    /\ ~NonDecreasing(Column(batch_ret.df, T_Time_s))

(* ------------------------------- C14 ----------------------------------- *)

(* same columns in the same order, same rows, same values *)
SameTable(a, b) ==
    /\ a.columns = b.columns
    /\ NRows(a) = NRows(b)
    /\ \A c \in 1..Len(a.columns) : \A r \in 1..NRows(a) :
          SameValue(a.data[c][r], b.data[c][r])

(* C14: on every document the two entry points both fail or both succeed,
   and when they succeed they return the same table (here for the headers
   without leading blanks). *)
C14_EntryPointsAgree ==
    ( /\ Ran(batch_ret)
      /\ Ran(viewer_ret)
      /\ HasHeader(csv_path) => ~csv_path[HeaderPos(csv_path)].lead ) =>
        /\ Loaded(batch_ret) <=> Loaded(viewer_ret)
        /\ (Loaded(batch_ret) /\ Loaded(viewer_ret)) => SameTable(batch_ret.df, viewer_ret.df)

(* ------------------------------- C11 ----------------------------------- *)

(* plot_selected has just computed a time range and sliced the table *)
HasSliced == call.handler = "plot_selected" /\ call.range.some

(* the rows of df whose time value lies in [s, e], both bounds included *)
RowsWithin(df, s, e) ==
    LET t == Column(df, TimeColumn(df)) IN
    {i \in 1..Len(t) : ~IsMissing(t[i]) /\ s.n <= t[i].n /\ t[i].n <= e.n}

(* what the entries ask for: the two numbers in order, none when an entry
   is empty or no number *)
Requested(gui) ==
    LET a == ParseFloat(gui.time_start_var)
        b == ParseFloat(gui.time_end_var)
    IN IF ~a.ok \/ ~b.ok \/ IsMissing(a.v) \/ IsMissing(b.v) THEN NoRange
       ELSE IF a.v.n <= b.v.n THEN TimeRange(a.v, b.v) ELSE TimeRange(b.v, a.v)

(* C11: on a table with a time value and whatever the Start and End
   entries hold, the range (s, e) of _get_time_range satisfies
   full_min <= s <= e <= full_max: it is the requested range (bounds put in
   order) cut to the data when the two overlap, the full extent otherwise;
   and plot_selected keeps exactly the rows with s <= time <= e. *)
C11_RangeWithinData ==
    HasSliced =>
        LET full == FullRange(self.df)
            req == Requested(self)
            s == call.range.start
            e == call.range.end
        IN /\ IsNumber(s) /\ IsNumber(e)
           /\ full.start.n <= s.n /\ s.n <= e.n /\ e.n <= full.end.n
           /\ IF req.some /\ req.end.n >= full.start.n /\ req.start.n <= full.end.n
              THEN /\ s.n = IF req.start.n > full.start.n THEN req.start.n ELSE full.start.n
                   /\ e.n = IF req.end.n < full.end.n THEN req.end.n ELSE full.end.n
              ELSE s.n = full.start.n /\ e.n = full.end.n
           /\ call.df_slice = RowsWithin(self.df, s, e)

(* ------------------------------- C13 ----------------------------------- *)

(* the numeric columns of df other than Time and Time_s *)
NumericSignals(df) ==
    {df.columns[j] : j \in {i \in 1..Len(df.columns) :
                               /\ df.columns[i] \notin {T_Time, T_Time_s}
                               /\ df.dtype[i] \in {"int64", "float64"}}}

(* df and units are those of the most recent load that returned, and
   signal_names lists the numeric signal columns of df, each once *)
HoldsLastLoad ==
    /\ self.df = last_load.df
    /\ self.units = last_load.units
    /\ {self.signal_names[i] : i \in 1..Len(self.signal_names)} = NumericSignals(self.df)
    /\ Len(self.signal_names) = Cardinality(NumericSignals(self.df))

(* an open_csv that was cancelled or whose load raised changes nothing of
   the viewer; one whose load returned takes over what the load returned *)
OpenCsvStep ==
    /\ (call'.handler = "open_csv" /\ call'.exit \in {"cancelled", "failed"}) =>
          /\ self' = self
          /\ last_load' = last_load
    /\ (call'.handler = "open_csv" /\ call'.exit = "loaded") =>
          /\ viewer_ret'.status = "ok"
          /\ self'.df = viewer_ret'.df
          /\ self'.units = viewer_ret'.units

(* C13: through any sequence of open_csv calls, df, units and signal_names
   come from the most recent successful load alone: a successful load
   replaces the three together, a cancelled or failing one leaves them and
   the Start and End entries as they were, and signal_names is always the
   numeric columns of df other than Time and Time_s. *)
C13_LoadReplacesAll == []HoldsLastLoad /\ [][OpenCsvStep]_vars

(* a load has failed after a successful one: the table, its units and the
   Start entry the user had typed are still there *)
C13_Witness ==
    /\ call.handler = "open_csv" /\ call.exit = "failed"
    /\ viewer_ret.status = "KeyError"
    /\ last_load.status = "ok"
    /\ NRows(self.df) = 2
    /\ T_Speed \in DOMAIN self.units
    /\ self.signal_names = <<T_Speed>>
    /\ self.time_start_var = T_abc

====
